---- MODULE Spec2Model ----
(***************************************************************************)
(* The toaster state machine of Source/Toaster.ts (namespace Appliances).  *)
(*                                                                         *)
(* A Toaster holds one reference, _state, to an instance of a subclass of  *)
(* ToasterState.  Each of its four public methods calls the method of the  *)
(* same name on the current state object, assigns the returned object to   *)
(* _state and logs it; the base class ToasterState throws                  *)
(* Error("Invalid operation") from every method and each subclass          *)
(* overrides exactly one of them.  JavaScript runs every call to           *)
(* completion, so one call is one step.                                    *)
(***************************************************************************)
EXTENDS Integers, Sequences, FiniteSets, TLC

\* ------------------------------------------------------------------ bounds
\* Number of Toaster objects the caller may construct.
NumToasters == 2
\* Total number of method calls the caller makes on all toasters together.
MaxCalls == 8

Toasters == 1..NumToasters

\* ------------------------------------------------- interface and classes
\* interface ToasterOperations: the four method names.
Operations == {"insertBread", "pullLever", "ejectBread", "removeBread"}

\* The four concrete subclasses of ToasterState.
StateClasses == {"IdleState", "BreadInsertedState", "ToastingState", "BreadEjectedState"}

\* Value of the field _state before the field initializer has run.
Undefined == [cls |-> "undefined", ref |-> <<0, 0>>]

\* new Error("Invalid operation"): name and message of the Error object.
InvalidOperation == [name |-> "Error", message |-> "Invalid operation"]

\* No error object: what a call that returns normally gives its caller.
NoError == [name |-> "", message |-> ""]

\* Outcome of a method of a state object: it returns `new cls()' ...
Return(cls) == [threw |-> FALSE, cls |-> cls, error |-> NoError]
\* ... or it throws an error.
Throw(err) == [threw |-> TRUE, cls |-> "undefined", error |-> err]

\* ToasterState with a default that returns a state instead of throwing.
ToasterState_ReturnsIdle(op) == Return("IdleState")

\* ToasterState whose error message names the operation attempted.
ToasterState_NamesOperation(op) == Throw([name |-> "Error", message |-> op])

\* abstract class ToasterState: every method throws.
ToasterState(op) == Throw(InvalidOperation)

\* IdleState whose insertBread returns the wrong state.
IdleState_WrongTarget(op) ==
    IF op = "insertBread" THEN Return("ToastingState") ELSE ToasterState(op)

\* IdleState that also overrides pullLever and goes straight to Toasting.
IdleState_LeverSkips(op) ==
    IF op = "insertBread" THEN Return("BreadInsertedState")
    ELSE IF op = "pullLever" THEN Return("ToastingState") ELSE ToasterState(op)

\* class IdleState extends ToasterState: overrides insertBread.
IdleState(op) ==
    IF op = "insertBread" THEN Return("BreadInsertedState") ELSE ToasterState(op)

\* BreadInsertedState whose pullLever goes back to Idle.
BreadInsertedState_BackToIdle(op) ==
    IF op = "pullLever" THEN Return("IdleState") ELSE ToasterState(op)

\* class BreadInsertedState extends ToasterState: overrides pullLever.
BreadInsertedState(op) ==
    IF op = "pullLever" THEN Return("ToastingState") ELSE ToasterState(op)

\* ToastingState that overrides removeBread as well as ejectBread.
ToastingState_AlsoRemoves(op) ==
    IF op = "ejectBread" THEN Return("BreadEjectedState")
    ELSE IF op = "removeBread" THEN Return("IdleState") ELSE ToasterState(op)

\* class ToastingState extends ToasterState: overrides ejectBread.
ToastingState(op) ==
    IF op = "ejectBread" THEN Return("BreadEjectedState") ELSE ToasterState(op)

\* BreadEjectedState that overrides nothing: no method of it returns.
BreadEjectedState_Terminal(op) == ToasterState(op)

\* BreadEjectedState whose removeBread does not go back to Idle.
BreadEjectedState_StaysEjected(op) ==
    IF op = "removeBread" THEN Return("BreadEjectedState") ELSE ToasterState(op)

\* class BreadEjectedState extends ToasterState: overrides removeBread.
BreadEjectedState(op) ==
    IF op = "removeBread" THEN Return("IdleState") ELSE ToasterState(op)

\* Virtual dispatch of this._state.op() on the class of the receiver.
Dispatch(cls, op) ==
    CASE cls = "IdleState" -> IdleState(op)
      [] cls = "BreadInsertedState" -> BreadInsertedState(op)
      [] cls = "ToastingState" -> ToastingState(op)
      [] cls = "BreadEjectedState" -> BreadEjectedState(op)

\* A field initializer that instantiates another class.
InitialClass_BreadInserted == "BreadInsertedState"

\* The class the field initializer of Toaster instantiates.
InitialClass == "IdleState"

\* ------------------------------------------------------------------ state
VARIABLES
    toasters,   \* the Toaster objects constructed so far
    state,      \* state[t]: Toaster._state, the class and identity of the object
    created,    \* created[t]: number of state objects created on behalf of toaster t
    held,       \* the identities of all objects some toaster's _state has referred to
    log,        \* log[t]: what logCurrentState of toaster t gave console.log, in order
    calls,      \* calls[t]: number of method calls made on toaster t
    returned,   \* returned[t]: number of those calls that returned normally
    inOrder,    \* inOrder[t]: every call on t so far was the next one of CycleOps
    thrown,     \* thrown[t]: the <<state class, operation>> of every call on t that
                \* threw since the last call on t that returned
    last        \* the most recent method call, what its caller observed, and how many
                \* other calls had thrown on that toaster since one returned

vars == <<toasters, state, created, held, log, calls, returned, inOrder, thrown, last>>

\* The four subclasses in the order of their declaration.
CycleClasses == <<"IdleState", "BreadInsertedState", "ToastingState", "BreadEjectedState">>

\* The order in which the demonstration calls the methods.
CycleOps == <<"insertBread", "pullLever", "ejectBread", "removeBread">>

\* Value of `last' before the first call.
NoCall == [toaster |-> 0, op |-> "none", threw |-> FALSE, error |-> NoError, afterOthers |-> 0]

RECURSIVE Sum(_, _)
Sum(f, S) == IF S = {} THEN 0 ELSE LET x == CHOOSE y \in S : TRUE IN f[x] + Sum(f, S \ {x})

TotalCalls == Sum(calls, Toasters)

Init ==
    /\ toasters = {}
    /\ state = [t \in Toasters |-> Undefined]
    /\ created = [t \in Toasters |-> 0]
    /\ held = {}
    /\ log = [t \in Toasters |-> << >>]
    /\ calls = [t \in Toasters |-> 0]
    /\ returned = [t \in Toasters |-> 0]
    /\ inOrder = [t \in Toasters |-> TRUE]
    /\ thrown = [t \in Toasters |-> {}]
    /\ last = NoCall

\* State classes that hand out one shared instance each instead of a new object.
New_Singleton(t, cls) ==
    [cls |-> cls, ref |-> <<0, CHOOSE i \in 1..4 : CycleClasses[i] = cls>>]

\* new cls(), evaluated during a call on toaster t: an object of class cls whose
\* identity is fresh.  An object is identified by the toaster whose call created
\* it and its ordinal among the objects created by that toaster's calls.
New(t, cls) == [cls |-> cls, ref |-> <<t, created[t] + 1>>]

\* logCurrentState that reports the state held before the assignment.
logCurrentState_Stale(t, st) == log' = [log EXCEPT ![t] = Append(@, state[t].cls)]

\* logCurrentState(): console.log(this._state), where st is the value of the
\* field _state of every toaster at the time of the call.
logCurrentState(t, st) == log' = [log EXCEPT ![t] = Append(@, st[t].cls)]

\* An assignment to a _state that is one static field shared by all toasters.
Assign_Static(t, obj) == [u \in Toasters |-> IF u \in toasters \cup {t} THEN obj ELSE state[u]]

\* this._state = obj, on toaster t: the field _state of every toaster afterwards.
Assign(t, obj) == [state EXCEPT ![t] = obj]

\* A constructor with an empty body: the initial state is not logged.
Construct_SkipsLog(t) ==
    /\ t \notin toasters
    /\ toasters' = toasters \cup {t}
    /\ state' = Assign(t, New(t, InitialClass))
    /\ held' = held \cup {New(t, InitialClass).ref}
    /\ created' = [created EXCEPT ![t] = @ + 1]
    /\ UNCHANGED <<log, calls, returned, inOrder, thrown, last>>

\* new Toaster(): the field initializer, then the constructor body.
Construct(t) ==
    /\ t \notin toasters
    /\ toasters' = toasters \cup {t}
    /\ LET st == Assign(t, New(t, InitialClass))
       IN /\ state' = st
          /\ logCurrentState(t, st)
    /\ held' = held \cup {New(t, InitialClass).ref}
    /\ created' = [created EXCEPT ![t] = @ + 1]
    /\ UNCHANGED <<calls, returned, inOrder, thrown, last>>

\* The method body with the logging in a finally block: it logs after a throw too.
Call_LogsInFinally(t, op) ==
    /\ t \in toasters
    /\ TotalCalls < MaxCalls
    /\ LET res == Dispatch(state[t].cls, op)
       IN /\ IF res.threw
             THEN /\ thrown' = [thrown EXCEPT ![t] = @ \cup {<<state[t].cls, op>>}]
                  /\ logCurrentState(t, state)
                  /\ UNCHANGED <<state, created, held, returned>>
             ELSE LET st == Assign(t, New(t, res.cls))
                  IN /\ state' = st
                     /\ held' = held \cup {New(t, res.cls).ref}
                     /\ created' = [created EXCEPT ![t] = @ + 1]
                     /\ logCurrentState(t, st)
                     /\ returned' = [returned EXCEPT ![t] = @ + 1]
                     /\ thrown' = [thrown EXCEPT ![t] = {}]
          /\ last' = [toaster |-> t, op |-> op, threw |-> res.threw, error |-> res.error,
                      afterOthers |-> Cardinality(thrown[t] \ {<<state[t].cls, op>>})]
    /\ calls' = [calls EXCEPT ![t] = @ + 1]
    /\ inOrder' = [inOrder EXCEPT ![t] = @ /\ op = CycleOps[(calls[t] % 4) + 1]]
    /\ UNCHANGED toasters

\* The method body with a handler that puts the toaster back into its initial
\* state when the state object throws, before the error goes on to the caller.
Call_ResetsOnThrow(t, op) ==
    /\ t \in toasters
    /\ TotalCalls < MaxCalls
    /\ LET res == Dispatch(state[t].cls, op)
       IN /\ IF res.threw
             THEN /\ thrown' = [thrown EXCEPT ![t] = @ \cup {<<state[t].cls, op>>}]
                  /\ state' = Assign(t, New(t, InitialClass))
                  /\ held' = held \cup {New(t, InitialClass).ref}
                  /\ created' = [created EXCEPT ![t] = @ + 1]
                  /\ UNCHANGED <<log, returned>>
             ELSE LET st == Assign(t, New(t, res.cls))
                  IN /\ state' = st
                     /\ held' = held \cup {New(t, res.cls).ref}
                     /\ created' = [created EXCEPT ![t] = @ + 1]
                     /\ logCurrentState(t, st)
                     /\ returned' = [returned EXCEPT ![t] = @ + 1]
                     /\ thrown' = [thrown EXCEPT ![t] = {}]
          /\ last' = [toaster |-> t, op |-> op, threw |-> res.threw, error |-> res.error,
                      afterOthers |-> Cardinality(thrown[t] \ {<<state[t].cls, op>>})]
    /\ calls' = [calls EXCEPT ![t] = @ + 1]
    /\ inOrder' = [inOrder EXCEPT ![t] = @ /\ op = CycleOps[(calls[t] % 4) + 1]]
    /\ UNCHANGED toasters

\* The common body of the four methods of Toaster:
\*     this._state = this._state.op(); this.logCurrentState()
\* A throw inside this._state.op() leaves the method before the assignment.
Call(t, op) ==
    /\ t \in toasters
    /\ TotalCalls < MaxCalls
    /\ LET res == Dispatch(state[t].cls, op)
       IN /\ IF res.threw
             THEN /\ thrown' = [thrown EXCEPT ![t] = @ \cup {<<state[t].cls, op>>}]
                  /\ UNCHANGED <<state, created, held, log, returned>>
             ELSE LET st == Assign(t, New(t, res.cls))
                  IN /\ state' = st
                     /\ held' = held \cup {New(t, res.cls).ref}
                     /\ created' = [created EXCEPT ![t] = @ + 1]
                     /\ logCurrentState(t, st)
                     /\ returned' = [returned EXCEPT ![t] = @ + 1]
                     /\ thrown' = [thrown EXCEPT ![t] = {}]
          /\ last' = [toaster |-> t, op |-> op, threw |-> res.threw, error |-> res.error,
                      afterOthers |-> Cardinality(thrown[t] \ {<<state[t].cls, op>>})]
    /\ calls' = [calls EXCEPT ![t] = @ + 1]
    /\ inOrder' = [inOrder EXCEPT ![t] = @ /\ op = CycleOps[(calls[t] % 4) + 1]]
    /\ UNCHANGED toasters

insertBread(t) == Call(t, "insertBread")
pullLever(t) == Call(t, "pullLever")
ejectBread(t) == Call(t, "ejectBread")
removeBread(t) == Call(t, "removeBread")

Next ==
    \E t \in Toasters :
        \/ Construct(t)
        \/ insertBread(t)
        \/ pullLever(t)
        \/ ejectBread(t)
        \/ removeBread(t)

Spec == Init /\ [][Next]_vars

\* ------------------------------------------------- the transition table
\* The transition table as the specification states it: (state, operation)
\* pairs that have an edge, and the state each edge leads to.
Table ==
    (<<"IdleState", "insertBread">> :> "BreadInsertedState")
    @@ (<<"BreadInsertedState", "pullLever">> :> "ToastingState")
    @@ (<<"ToastingState", "ejectBread">> :> "BreadEjectedState")
    @@ (<<"BreadEjectedState", "removeBread">> :> "IdleState")

\* This step is a method call on toaster t; last' then holds its operation.
CallOn(t) == calls'[t] = calls[t] + 1

\* ------------------------------------------------------------------ claims

\* C1: for every pair (S, O) of the transition table, calling O on a toaster
\* whose current state is S returns without error and the toaster's current
\* state afterwards is the table's target for (S, O).
C1_EdgeSucceeds ==
    [][\A t \in Toasters :
          (CallOn(t) /\ <<state[t].cls, last'.op>> \in DOMAIN Table)
          => (/\ ~last'.threw
              /\ state'[t].cls = Table[<<state[t].cls, last'.op>>])]_vars

\* A toaster has been driven over all four edges, one after the other.
C1_Witness ==
    \E t \in toasters :
        /\ returned[t] = 4
        /\ log[t] = <<"IdleState", "BreadInsertedState", "ToastingState",
                      "BreadEjectedState", "IdleState">>

\* C2: for each of the 12 pairs (S, O) that are not an edge of the table,
\* calling O on a toaster whose current state is S fails with the
\* invalid-operation error and the toaster's current state is still S (the
\* same object) after the call.
C2_NonEdgeFails ==
    [][\A t \in Toasters :
          (CallOn(t) /\ <<state[t].cls, last'.op>> \notin DOMAIN Table)
          => (/\ last'.threw
              /\ last'.error = InvalidOperation
              /\ state'[t] = state[t])]_vars

\* A call has just failed on a toaster that had left Idle and had already
\* failed twice before in its current state.
C2_Witness ==
    /\ last.threw
    /\ last.toaster \in toasters
    /\ last.afterOthers = 2
    /\ state[last.toaster].cls = "ToastingState"

\* C3: the current state of a freshly constructed toaster, before any
\* operation has been called on it, is Idle.
C3_StartsIdle ==
    \A t \in toasters : calls[t] = 0 => state[t].cls = "IdleState"

\* A toaster has been constructed and not been called yet.
C3_Witness ==
    \E t \in toasters : calls[t] = 0 /\ created[t] = 1 /\ log[t] = <<"IdleState">>

\* C4: starting from Idle, calling insertBread, pullLever, ejectBread,
\* removeBread in that order succeeds at every step, and after N repetitions
\* of the four calls the toaster is in Idle and the 4*N calls have produced
\* exactly 4*N notifications (one more was produced by the construction).
C4_FullCycle ==
    \A t \in toasters :
        inOrder[t] =>
            /\ returned[t] = calls[t]
            /\ thrown[t] = {}
            /\ (calls[t] % 4 = 0 =>
                   /\ state[t].cls = "IdleState"
                   /\ Len(log[t]) - 1 = calls[t])

\* A toaster has been driven through the four-call sequence twice (N = 2).
C4_Witness ==
    \E t \in toasters : inOrder[t] /\ calls[t] = 8 /\ state[t].cls = "IdleState"

\* The edges of the cycle as pairs of states.
CycleEdges == {<<p[1], Table[p]>> : p \in DOMAIN Table}

\* C5: each call either leaves the current state unchanged or moves it along
\* one of the four cycle edges; from Idle the calls pullLever, ejectBread and
\* removeBread fail and leave the toaster in Idle; Toasting is entered from
\* BreadInserted only.
C5_NoSkip ==
    [][\A t \in toasters :
          /\ \/ state'[t].cls = state[t].cls
             \/ <<state[t].cls, state'[t].cls>> \in CycleEdges
          /\ (/\ CallOn(t)
              /\ state[t].cls = "IdleState"
              /\ last'.op \in {"pullLever", "ejectBread", "removeBread"})
             => (last'.threw /\ state'[t].cls = "IdleState")
          /\ (state'[t].cls = "ToastingState" /\ state[t].cls # "ToastingState")
             => state[t].cls = "BreadInsertedState"]_vars

\* pullLever has just failed on a toaster in Idle, which is still in Idle,
\* while another toaster went from BreadInserted to Toasting.
C5_Witness ==
    /\ last.threw
    /\ last.op = "pullLever"
    /\ last.toaster \in toasters
    /\ state[last.toaster].cls = "IdleState"
    /\ \E u \in toasters :
          /\ Len(log[u]) >= 3
          /\ log[u][2] = "BreadInsertedState"
          /\ log[u][3] = "ToastingState"

\* C6: two independently constructed toasters do not affect each other: a
\* construction of, or a call (successful or failing) on, one toaster leaves
\* the state object and the notifications of every other toaster unchanged.
C6_Independent ==
    [][\A t \in Toasters :
          (CallOn(t) \/ (t \notin toasters /\ t \in toasters'))
          => \A u \in Toasters \ {t} :
                /\ state'[u] = state[u]
                /\ log'[u] = log[u]
                /\ created'[u] = created[u]
                /\ (u \in toasters <=> u \in toasters')]_vars

\* One toaster has been driven through its full cycle, with failing calls in
\* between, while another constructed toaster is still in Idle.
C6_Witness ==
    \E t, u \in toasters :
        /\ t # u
        /\ returned[t] >= 4
        /\ calls[t] > returned[t]
        /\ calls[u] = 0
        /\ state[u].cls = "IdleState"

\* C7: after any sequence of calls on one toaster, the number of
\* notifications it has issued is 1 + the number of calls that succeeded: one
\* at construction, one per successful call, none for a failed call.
C7_NotificationCount ==
    \A t \in Toasters :
        Len(log[t]) = IF t \in toasters THEN 1 + returned[t] ELSE 0

\* A toaster on which some calls returned and some threw.
C7_Witness ==
    \E t \in toasters : returned[t] >= 2 /\ calls[t] >= returned[t] + 2

\* C8: every notification carries the current state as it is after the
\* commit: the construction notification carries Idle, and the notification
\* of a successful call carries the new state, the table's target, and never
\* the state held before the call.
C8_LogsNewState ==
    [][\A t \in Toasters :
          log'[t] # log[t] =>
            /\ log'[t] = Append(log[t], state'[t].cls)
            /\ t \notin toasters => state'[t].cls = "IdleState"
            /\ t \in toasters =>
                 /\ CallOn(t)
                 /\ ~last'.threw
                 /\ <<state[t].cls, last'.op>> \in DOMAIN Table
                 /\ log'[t][Len(log'[t])] = Table[<<state[t].cls, last'.op>>]
                 /\ log'[t][Len(log'[t])] # state[t].cls]_vars

\* A call has just returned on a toaster whose latest notification carries
\* its current state, after the construction and an earlier call were reported.
C8_Witness ==
    /\ ~last.threw
    /\ last.toaster \in toasters
    /\ Len(log[last.toaster]) >= 3
    /\ log[last.toaster][1] = "IdleState"
    /\ log[last.toaster][Len(log[last.toaster])] = state[last.toaster].cls

\* Two calls in a row on one toaster threw, for two different operations.  No
\* call lies between them and a call that throws leaves the state alone, so
\* both were made in the same state.
TwoFailuresOfDifferentOperations ==
    /\ last.threw
    /\ last'.threw
    /\ last'.toaster = last.toaster
    /\ last'.op # last.op

\* C9 as stated: the errors produced by two different not-permitted
\* operations called in the same state are distinguishable, each naming its
\* operation.
C9_ErrorNamesOperation ==
    [][TwoFailuresOfDifferentOperations => last'.error # last.error]_vars

\* C9, amended: the error of every not-permitted call is the same
\* Error("Invalid operation"), whatever the operation and the state; the
\* errors of two different not-permitted operations called in the same state
\* are equal and do not name the operation.
C9_ErrorIsUniform ==
    [][TwoFailuresOfDifferentOperations =>
          /\ last'.error = last.error
          /\ last'.error = InvalidOperation
          /\ last'.error.message # last'.op]_vars

\* A call has just thrown on a toaster on which a different operation had
\* thrown before, in the same state.
C9_Witness ==
    /\ last.threw
    /\ last.afterOthers >= 1
    /\ last.error = InvalidOperation

\* C10: for every state S, after any number of failed calls made while in
\* S, the operation permitted from S still succeeds and moves the toaster to
\* the table's target for S.
C10_UsableAfterFailure ==
    [][\A t \in toasters :
          \A p \in thrown[t] :
             (CallOn(t) /\ <<p[1], last'.op>> \in DOMAIN Table)
             => (/\ ~last'.threw
                 /\ state'[t].cls = Table[<<p[1], last'.op>>])]_vars

\* A call has just returned on a toaster on which, since the call that
\* returned before it, all three not-permitted operations had thrown.
C10_Witness ==
    /\ ~last.threw
    /\ last.toaster \in toasters
    /\ last.afterOthers = 3
    /\ returned[last.toaster] >= 2

\* The operations that would return if called on toaster t now.
Permitted(t) == {op \in Operations : ~Dispatch(state[t].cls, op).threw}

\* C11: in every reachable state of a toaster at most one of the four
\* operations is permitted (would succeed); a call of any other operation
\* fails and leaves the state, the very same object, in place.
C11_AtMostOnePermitted ==
    /\ [](\A t \in toasters : Cardinality(Permitted(t)) <= 1)
    /\ [][\A t \in toasters :
             CallOn(t) =>
                /\ ~last'.threw <=> last'.op \in Permitted(t)
                /\ last'.op \notin Permitted(t) => state'[t] = state[t]]_vars

\* A toaster that has visited all four states, on which a not-permitted call
\* has just thrown, and on which exactly one operation is permitted now.
C11_Witness ==
    /\ last.threw
    /\ last.toaster \in toasters
    /\ returned[last.toaster] >= 4
    /\ Cardinality(Permitted(last.toaster)) = 1
    /\ last.op \notin Permitted(last.toaster)

\* C12: the machine has no terminal state and no state outside the four: in
\* every state reachable from a fresh toaster the current state is one of
\* Idle, BreadInserted, Toasting, BreadEjected and at least one operation is
\* permitted.  Each of the four states is reachable from Idle: C12_Witness.
C12_NoTerminalState ==
    \A t \in toasters :
        /\ state[t].cls \in {"IdleState", "BreadInsertedState", "ToastingState",
                             "BreadEjectedState"}
        /\ \E op \in Operations : ~Dispatch(state[t].cls, op).threw

\* A toaster that started in Idle has been in each of the four states and has
\* left the last of them, BreadEjected, again.
C12_Witness ==
    \E t \in toasters :
        /\ log[t][1] = "IdleState"
        /\ {log[t][i] : i \in 1..Len(log[t])} =
              {"IdleState", "BreadInsertedState", "ToastingState", "BreadEjectedState"}
        /\ Len(log[t]) >= 5
        /\ Permitted(t) # {}

\* The cycle of states, counted from 0 by position - 1.
Cycle == <<"IdleState", "BreadInsertedState", "ToastingState", "BreadEjectedState">>

\* C13: after any sequence of calls on a freshly constructed toaster, of
\* which k calls succeeded, the current state is the (k mod 4)-th element of
\* the cycle (Idle, BreadInserted, Toasting, BreadEjected), counted from 0;
\* failed calls do not contribute to k.
C13_StateIsSuccessesMod4 ==
    \A t \in toasters : state[t].cls = Cycle[(returned[t] % 4) + 1]

\* A toaster with five successful calls (once round the cycle and one more)
\* and at least two failed ones.
C13_Witness ==
    \E t \in toasters :
        /\ returned[t] = 5
        /\ calls[t] >= 7
        /\ state[t].cls = "BreadInsertedState"

\* C14: for any sequence of calls, valid and invalid mixed, on one toaster,
\* the sequence of states reported to the logging collaborator is a prefix of
\* the periodic sequence Idle, BreadInserted, Toasting, BreadEjected, Idle,
\* ...; the same state is never reported twice in a row.
C14_LogIsPeriodicPrefix ==
    \A t \in Toasters :
        /\ \A i \in 1..Len(log[t]) : log[t][i] = Cycle[((i - 1) % 4) + 1]
        /\ \A i \in 1..(Len(log[t]) - 1) : log[t][i] # log[t][i + 1]

\* A toaster that has reported six states, into the second round of the
\* cycle, with failed calls among its calls.
C14_Witness ==
    \E t \in toasters :
        /\ Len(log[t]) = 6
        /\ log[t][5] = "IdleState"
        /\ log[t][6] = "BreadInsertedState"
        /\ calls[t] > returned[t]

\* C15: each successful call to a transition method sets _state to a newly
\* created state instance, distinct from every instance held before by any
\* toaster (also when the cycle returns to Idle); a call that is not allowed
\* throws and leaves _state referring to the same instance as before the call.
C15_NewInstancePerTransition ==
    [][\A t \in toasters :
          CallOn(t) =>
             IF last'.threw
             THEN state'[t].ref = state[t].ref
             ELSE /\ state'[t].ref \notin held
                  /\ state'[t].ref # state[t].ref
                  /\ \A u \in toasters : state'[t].ref # state[u].ref]_vars

\* A toaster is back in Idle after a full cycle, holding the fifth object it
\* has been given and not the IdleState it was constructed with, and calls on
\* it have also thrown.
C15_Witness ==
    \E t \in toasters :
        /\ returned[t] = 4
        /\ calls[t] > returned[t]
        /\ state[t].cls = "IdleState"
        /\ state[t].ref = <<t, 5>>
        /\ <<t, 1>> \in held
        /\ Cardinality({r \in held : r[1] = t}) = 5

TypeOK ==
    /\ toasters \subseteq Toasters
    /\ \A t \in Toasters :
        /\ state[t].cls \in StateClasses \cup {"undefined"}
        /\ calls[t] \in 0..MaxCalls
        /\ returned[t] \in 0..calls[t]
====
